---- MODULE Spec2Model ----
(***************************************************************************)
(* kisiac: storage reconciliation.                                         *)
(*   filesystems.py  update_filesystems, DeviceInfos                       *)
(*   lvm.py          LV.is_same_layout, get_missing_pvs, LVMSetup          *)
(* A path is a sequence of components, a component a sequence of symbols.  *)
(***************************************************************************)
EXTENDS Integers, Sequences, FiniteSets, TLC

VARIABLES
    \* ---- update_filesystems (filesystems.py) ----
    filesystems,    \* set(Config.get_instance().filesystems)
    iter_order,     \* the order in which this process iterates the set
    dev_fs,         \* host: fs type each block device reports
    listed,         \* host: devices the full lsblk listing reports
    queryable,      \* host: devices a single-device lsblk query answers for
    fstab_file,     \* host: lines of /etc/fstab
    mounted,        \* host: mountpoints that are mounted
    pc,             \* position in update_filesystems
    mkfs_cmds,      \* local mkfs_cmds
    old_fstab,      \* local old_fstab (parsed entries)
    new_fstab,      \* local new_fstab (entries)
    i,              \* index of the running loop
    j,              \* position in the body of the mount loop
    log,            \* external effects of the current run, in order
    run,            \* number of the current run
    prev_clean,     \* the previous run accepted every prompt and completed
    start_converged,\* the host was converged when the current run started
    \* ---- LV.is_same_layout (lvm.py) ----
    lv_a,           \* self
    lv_b,           \* other
    same_ab,        \* {lv_a.is_same_layout(lv_b)} once evaluated
    same_ba,        \* {lv_b.is_same_layout(lv_a)} once evaluated
    \* ---- get_missing_pvs (lvm.py) ----
    device_reports, \* the argument: one VG's device report strings
    gen_k,          \* the report the generator is at
    gen_pc,         \* "running", "exhausted", or the exception raised
    missing_pvs,    \* entities.missing_pvs: the PVs yielded so far
    \* ---- LVMSetup.from_system (lvm.py) ----
    installed,      \* host: exists_cmd("pvcreate")
    lv_data,        \* host: the lvs report
    vg_devices_raw, \* host: the vgs vg_name,devices report
    pv_data,        \* host: the pvs report
    sys_pc,         \* position in from_system
    sys_k,          \* index in lv_data
    entities,       \* the LVMSetup under construction
    pv_tag_registry,\* lv name -> tag
    \* ---- DeviceInfos (filesystems.py) ----
    lsblk_output,   \* host: the device tree lsblk reports
    infos,          \* DeviceInfos.infos, the cached list
    d_pc,           \* "new" before __init__, then "ready"; "failed" on UserError
    lookups,        \* the get_info_for_device calls made, with their results
    queries,        \* the single-device lsblk invocations issued, in order
    \* ---- LVMSetup.from_config (lvm.py) ----
    lvs,            \* config: the "lvs" mapping of one VG, in mapping order
    sorted_lvs,     \* the items in the order the loop visits them
    cfg_k,          \* index of the loop in sorted_lvs
    cfg_pc,         \* position in from_config
    lvs_entities    \* the LVs constructed so far, in insertion order

fsvars == <<filesystems, iter_order, dev_fs, listed, queryable, fstab_file,
            mounted, pc, mkfs_cmds, old_fstab, new_fstab, i, j, log, run,
            prev_clean, start_converged>>

lvvars == <<lv_a, lv_b, same_ab, same_ba>>

mpvars == <<device_reports, gen_k, gen_pc, missing_pvs>>

sysvars == <<installed, lv_data, vg_devices_raw, pv_data, sys_pc, sys_k,
             entities, pv_tag_registry>>

dvars == <<lsblk_output, infos, d_pc, lookups, queries>>

cfgvars == <<lvs, sorted_lvs, cfg_k, cfg_pc, lvs_entities>>

vars == <<fsvars, lvvars, mpvars, sysvars, dvars, cfgvars>>

\* The variables an operation leaves alone because they are not its own.
notfs == <<lvvars, mpvars, sysvars, dvars, cfgvars>>
notlv == <<fsvars, mpvars, sysvars, dvars, cfgvars>>
notmp == <<fsvars, lvvars, sysvars, dvars, cfgvars>>
notsys == <<fsvars, lvvars, mpvars, dvars, cfgvars>>
notd == <<fsvars, lvvars, mpvars, sysvars, cfgvars>>
notcfg == <<fsvars, lvvars, mpvars, sysvars, dvars>>

-----------------------------------------------------------------------------
(* Bounds *)
MaxFS == 2          \* filesystems in the desired set
MaxRuns == 2        \* consecutive runs of update_filesystems on one host
MaxStripes == 2     \* largest stripe count of an LV
MaxReports == 3     \* device reports of one VG
MaxLVs == 2         \* records of the lvs report
MaxNameLen == 6     \* symbols in a device-mapper name
MaxLookups == 2     \* get_info_for_device calls on one DeviceInfos
MaxConfigLVs == 3   \* LV entries in one VG of the config

(* Program constants *)
AlreadyMounted == 5 \* filesystems.py 66-67

-----------------------------------------------------------------------------
(* Values *)
None == "None"
NoPath == <<>>                       \* a Path | None that is None
Dev == <<"dev">>
DevPath(n) == <<Dev, <<n>>>>         \* /dev/<n>

Last(s) == s[Len(s)]
Range(s) == {s[k] : k \in 1..Len(s)}

\* Permutations of a finite set, as sequences.
RECURSIVE Perms(_)
Perms(S) ==
    IF S = {} THEN {<<>>}
    ELSE UNION {{<<x>> \o p : p \in Perms(S \ {x})} : x \in S}

-----------------------------------------------------------------------------
(* The desired filesystems: kisiac.config.Filesystem (consumed) *)
Catalogue ==
    { [id |-> 1, device |-> DevPath("sda1"), label |-> None, uuid |-> None,
       fs_type |-> "ext4", mountpoint |-> "/data"],
      [id |-> 2, device |-> NoPath, label |-> "scratch", uuid |-> None,
       fs_type |-> "xfs", mountpoint |-> "/scratch"],
      [id |-> 3, device |-> NoPath, label |-> None, uuid |-> "u3",
       fs_type |-> "ext4", mountpoint |-> None] }

\* The block devices of the host, in the order lsblk reports them.
Devices == <<"sda1", "sdb1", "sdc1">>
DevLabel == [d \in Range(Devices) |->
                CASE d = "sdb1" -> "scratch" [] OTHER -> None]
DevUuid == [d \in Range(Devices) |->
                CASE d = "sda1" -> "u1" [] d = "sdb1" -> "u2" [] OTHER -> "u3"]
FsTypes == {"ext4", "xfs"}

\* The device a catalogue filesystem is meant for.
TargetOf(fs) ==
    IF fs.device # NoPath THEN fs.device[2][1]
    ELSE CHOOSE d \in Range(Devices) :
            IF fs.label # None THEN DevLabel[d] = fs.label
            ELSE DevUuid[d] = fs.uuid

\* lsblk --json entry of device d
LsblkEntry(d) ==
    [name |-> DevPath(d), type |-> "part", fstype |-> dev_fs[d],
     label |-> DevLabel[d], uuid |-> DevUuid[d], children |-> <<>>]

\* lsblk output: the full listing, or the listing narrowed to one device
\* ("fail" is a non-zero exit, which run_cmd turns into a UserError).
LsblkAll == SelectSeq([k \in 1..Len(Devices) |-> LsblkEntry(Devices[k])],
                      LAMBDA e : e.name[2][1] \in listed)
LsblkOne(device) ==
    IF \E d \in listed \cup queryable : DevPath(d) = device
    THEN [ok |-> TRUE,
          blockdevices |-> <<LsblkEntry(device[2][1])>>]
    ELSE [ok |-> FALSE, blockdevices |-> <<>>]

-----------------------------------------------------------------------------
(* DeviceInfos: filesystems.py 128-223 *)

\* Path.is_relative_to(Path("/dev/mapper"))
is_relative_to_mapper(path) ==
    Len(path) >= 2 /\ path[1] = Dev /\ path[2] = <<"mapper">>

\* DeviceInfo.with_device
with_device(info, device) == [info EXCEPT !.device = device]

\* re.sub(r"(?P<pre>[^-])-(?P<post>[^-])", r"\g<pre>/\g<post>", name, count=1):
\* the position of the hyphen of the leftmost match, 0 when nothing matches
FirstSingleHyphen(name) ==
    LET hits == {k \in 2..(Len(name) - 1) :
                    name[k] = "-" /\ name[k-1] # "-" /\ name[k+1] # "-"}
    IN IF hits = {} THEN 0 ELSE CHOOSE k \in hits : \A h \in hits : k <= h

\* str.replace("--", "-"): left to right, non-overlapping
RECURSIVE ReplaceDoubled(_)
ReplaceDoubled(s) ==
    IF Len(s) < 2 THEN s
    ELSE IF s[1] = "-" /\ s[2] = "-"
         THEN <<"-">> \o ReplaceDoubled(SubSeq(s, 3, Len(s)))
         ELSE <<s[1]>> \o ReplaceDoubled(Tail(s))

\* Path(...) / str: the components of a relative path string
RECURSIVE path_parts(_)
path_parts(str) ==
    LET slashes == {k \in 1..Len(str) : str[k] = "/"}
    IN IF slashes = {} THEN <<str>>
       ELSE LET c == CHOOSE k \in slashes : \A h \in slashes : k <= h
            IN <<SubSeq(str, 1, c - 1)>>
                  \o path_parts(SubSeq(str, c + 1, Len(str)))

\* lines 167-172: Path("/dev") / re.sub(...).replace("--", "-")
alias_path(path) ==
    LET name == Last(path)
        k == FirstSingleHyphen(name)
        subbed == IF k = 0 THEN name ELSE [name EXCEPT ![k] = "/"]
    IN <<Dev>> \o path_parts(ReplaceDoubled(subbed))

\* parse_entry: the DeviceInfo of an entry and what it appends to self.infos
RECURSIVE parse_entry(_, _)
RECURSIVE parse_children(_, _)
parse_children(entries, update) ==
    IF entries = <<>> THEN [children |-> <<>>, appended |-> <<>>]
    ELSE LET head == parse_entry(entries[1], update)
             rest == parse_children(Tail(entries), update)
         IN [children |-> <<head.info>> \o rest.children,
             appended |-> head.appended \o rest.appended]
parse_entry(entry, update) ==
    LET kids == parse_children(entry.children, update)
        device_info == [device |-> entry.name, device_type |-> entry.type,
                        fs_type |-> entry.fstype, label |-> entry.label,
                        uuid |-> entry.uuid, children |-> kids.children]
        own == IF ~update THEN <<>>
               ELSE IF is_relative_to_mapper(entry.name)
                    THEN <<device_info,
                           with_device(device_info, alias_path(entry.name))>>
                    ELSE <<device_info>>
    IN [info |-> device_info, appended |-> own \o kids.appended]

\* DeviceInfos.__init__: _from_system(update=True), the cached list self.infos
DeviceInfos(blockdevices) == parse_children(blockdevices, TRUE).appended

\* _from_system(update=False, device): the DeviceInfo of the last entry
from_system_device(blockdevices) ==
    parse_entry(Last(blockdevices), FALSE).info

NoInfo == [device |-> NoPath, device_type |-> None, fs_type |-> None,
           label |-> None, uuid |-> None, children |-> <<>>]

\* get_info_for_device: [ok, info]; query is the single-device lsblk result
get_info_for_device(cached, device, query) ==
    LET hits == {k \in 1..Len(cached) : cached[k].device = device}
    IN IF hits # {}
       THEN [ok |-> TRUE,
             info |-> cached[CHOOSE k \in hits : \A h \in hits : k <= h]]
       ELSE IF query.ok
            THEN [ok |-> TRUE,
                  info |-> from_system_device(query.blockdevices)]
            ELSE [ok |-> FALSE, info |-> NoInfo]

\* find_device() (lines 209-214) found nothing: _from_system is called
is_cache_miss(cached, device) ==
    \A k \in 1..Len(cached) : cached[k].device # device

\* _from_system(update, device): self.infos after the call (lines 163-181)
from_system_infos(cached, update, blockdevices) ==
    cached \o parse_children(blockdevices, update).appended

\* (mutant) the miss is served by _from_system(update=True, device=device)
get_info_for_device_infos_inserting(cached, device, query) ==
    IF is_cache_miss(cached, device) /\ query.ok
    THEN from_system_infos(cached, TRUE, query.blockdevices)
    ELSE cached

\* get_info_for_device: self.infos after the call (line 216: update=False)
get_info_for_device_infos(cached, device, query) ==
    IF is_cache_miss(cached, device) /\ query.ok
    THEN from_system_infos(cached, FALSE, query.blockdevices)
    ELSE cached

\* (mutant) the system is queried before the cached list is searched
get_info_for_device_queries_always(cached, device) == <<device>>

\* get_info_for_device: the lsblk <device> invocations it issues
get_info_for_device_queries(cached, device) ==
    IF is_cache_miss(cached, device) THEN <<device>> ELSE <<>>

is_targeted_by_filesystem(filesystem, device_info) ==
    IF filesystem.label # None THEN device_info.label = filesystem.label
    ELSE IF filesystem.uuid # None THEN device_info.uuid = filesystem.uuid
    ELSE FALSE

\* get_info: [ok, info]; ok = FALSE is the UserError
get_info(cached, filesystem, query) ==
    IF filesystem.device # NoPath
    THEN get_info_for_device(cached, filesystem.device, query)
    ELSE LET hits == {k \in 1..Len(cached) :
                         is_targeted_by_filesystem(filesystem, cached[k])}
         IN IF hits # {}
            THEN [ok |-> TRUE,
                  info |-> cached[CHOOSE k \in hits : \A h \in hits : k <= h]]
            ELSE [ok |-> FALSE, info |-> NoInfo]

-----------------------------------------------------------------------------
(* update_filesystems: filesystems.py 16-68 *)

\* sorted(filesystems)
RECURSIVE sorted(_)
sorted(S) ==
    IF S = {} THEN <<>>
    ELSE LET m == CHOOSE x \in S : \A y \in S : x.id <= y.id
         IN <<m>> \o sorted(S \ {m})

\* Filesystem.to_fstab_entry
to_fstab_entry(filesystem) ==
    [fs_spec |-> [device |-> filesystem.device, label |-> filesystem.label,
                  uuid |-> filesystem.uuid],
     dir |-> IF filesystem.mountpoint = None THEN "none"
             ELSE filesystem.mountpoint,
     type |-> filesystem.fs_type]

\* Fstab.write_string / str(Fstab): one line per entry
write_string(entries) ==
    [k \in 1..Len(entries) |->
        [kind |-> "entry", fs_spec |-> entries[k].fs_spec,
         dir |-> entries[k].dir, type |-> entries[k].type]]

\* Fstab().read_string: the entries among the lines (comments are dropped)
read_string(lines) ==
    LET kept == SelectSeq(lines, LAMBDA l : l.kind = "entry")
    IN [k \in 1..Len(kept) |->
          [fs_spec |-> kept[k].fs_spec, dir |-> kept[k].dir,
           type |-> kept[k].type]]

CommentLine ==
    [kind |-> "comment",
     fs_spec |-> [device |-> NoPath, label |-> None, uuid |-> None],
     dir |-> None, type |-> None]

\* (mutant) the entries in the set's iteration order, not sorted
new_fstab_entries_unsorted(fss, order) ==
    [k \in 1..Len(order) |-> to_fstab_entry(order[k])]

\* lines 35-38: new_fstab.entries; order is the set's iteration order
new_fstab_entries(fss, order) ==
    LET s == sorted(fss) IN [k \in 1..Len(s) |-> to_fstab_entry(s[k])]

\* (mutant) a filesystem that does not resolve is skipped
RECURSIVE queue_mkfs_lenient(_, _)
queue_mkfs_lenient(order, cached) ==
    IF order = <<>> THEN [ok |-> TRUE, cmds |-> <<>>]
    ELSE LET filesystem == order[1]
             r == get_info(cached, filesystem, LsblkOne(filesystem.device))
             rest == queue_mkfs_lenient(Tail(order), cached)
         IN [ok |-> TRUE,
             cmds |-> (IF r.ok /\ r.info.fs_type # filesystem.fs_type
                       THEN <<[fs_type |-> filesystem.fs_type,
                               device |-> r.info.device]>>
                       ELSE <<>>) \o rest.cmds]

\* lines 21-27: the first loop, [ok, cmds]; ok = FALSE is get_info's UserError
RECURSIVE queue_mkfs(_, _)
queue_mkfs(order, cached) ==
    IF order = <<>> THEN [ok |-> TRUE, cmds |-> <<>>]
    ELSE LET filesystem == order[1]
             r == get_info(cached, filesystem, LsblkOne(filesystem.device))
             rest == queue_mkfs(Tail(order), cached)
         IN IF ~r.ok \/ ~rest.ok THEN [ok |-> FALSE, cmds |-> <<>>]
            ELSE [ok |-> TRUE,
                  cmds |-> (IF r.info.fs_type # filesystem.fs_type
                            THEN <<[fs_type |-> filesystem.fs_type,
                                    device |-> r.info.device]>>
                            ELSE <<>>) \o rest.cmds]

\* (mutant) the answer is not looked at
after_confirm_mkfs_any(answer) == "mkfs"

\* (mutant) a negative answer ends the run
after_confirm_mkfs_abort(answer) == IF answer THEN "mkfs" ELSE "done"

\* line 40: where the run goes after the answer to the mkfs prompt
after_confirm_mkfs(answer) == IF answer THEN "mkfs" ELSE "ask_fstab"

\* line 46: where the run goes after the answer to the fstab prompt
after_confirm_fstab(answer) == IF answer THEN "write_fstab" ELSE "loop"

\* (mutant) mount before mkdir
loop_body_swapped == <<"mount", "mkdir">>

\* lines 57-64: the body of the last loop, for a filesystem with a mountpoint
loop_body == <<"mkdir", "mount">>

\* (mutant) "already mounted" is not tolerated
tolerated_zero_only(returncode) == returncode = 0

\* lines 65-68: the exit statuses of mount the loop goes on after
tolerated(returncode) == returncode = 0 \/ returncode = AlreadyMounted

\* line 56: the first index >= k of a filesystem with a mountpoint, 0 if none
next_mountable(order, k) ==
    LET left == {n \in k..Len(order) : order[n].mountpoint # None}
    IN IF left = {} THEN 0 ELSE CHOOSE n \in left : \A h \in left : n <= h

Event(op) ==
    [op |-> op, device |-> NoPath, mp |-> None, fs_type |-> None, rc |-> 0,
     ans |-> FALSE, cmds |-> <<>>, content |-> <<>>]

\* --- the host, seen from outside the program ---
Resolvable(fs) ==
    IF fs.device # NoPath THEN TargetOf(fs) \in listed \cup queryable
    ELSE TargetOf(fs) \in listed

Converged ==
    /\ \A fs \in filesystems :
          Resolvable(fs) /\ dev_fs[TargetOf(fs)] = fs.fs_type
    /\ write_string(read_string(fstab_file))
          = write_string(new_fstab_entries(filesystems, iter_order))
    /\ \A fs \in filesystems :
          fs.mountpoint # None => fs.mountpoint \in mounted

InitFSVars ==
    /\ filesystems \in {S \in SUBSET Catalogue : Cardinality(S) <= MaxFS}
    /\ iter_order \in Perms(filesystems)
    /\ dev_fs \in [Range(Devices) -> FsTypes]
    /\ listed \in SUBSET Range(Devices)
    /\ queryable \in SUBSET Range(Devices)
    /\ LET targets == {TargetOf(fs) : fs \in filesystems}
           byPath == {TargetOf(fs) : fs \in {f \in filesystems :
                                                 f.device # NoPath}}
       IN /\ \A d \in Range(Devices) \ targets :
                d \in listed /\ dev_fs[d] = "ext4"
          /\ queryable \subseteq byPath \ listed
    /\ fstab_file \in
          LET canon == write_string(new_fstab_entries(filesystems, iter_order))
          IN {<<>>, canon, <<CommentLine>> \o canon}
    /\ mounted \in SUBSET {fs.mountpoint : fs \in {f \in filesystems :
                                                     f.mountpoint # None}}
    /\ pc = "start"
    /\ mkfs_cmds = <<>>
    /\ old_fstab = <<>>
    /\ new_fstab = <<>>
    /\ i = 0
    /\ j = 0
    /\ log = <<>>
    /\ run = 1
    /\ prev_clean = FALSE
    /\ start_converged = Converged

host == <<dev_fs, listed, queryable, fstab_file, mounted>>
config == <<filesystems, iter_order, run, prev_clean, start_converged>>

\* lines 17-38: discovery, the first loop, reading /etc/fstab, new_fstab
Resolve ==
    /\ pc = "start"
    /\ LET device_infos == DeviceInfos(LsblkAll)
           q == queue_mkfs(iter_order, device_infos)
       IN IF q.ok
          THEN /\ mkfs_cmds' = q.cmds
               /\ old_fstab' = read_string(fstab_file)
               /\ new_fstab' = new_fstab_entries(filesystems, iter_order)
               /\ pc' = "ask_mkfs"
          ELSE /\ pc' = "failed"
               /\ UNCHANGED <<mkfs_cmds, old_fstab, new_fstab>>
    /\ UNCHANGED <<host, config, i, j, log>>
    /\ UNCHANGED notfs

\* line 40, mkfs_cmds empty: no prompt
SkipMkfs ==
    /\ pc = "ask_mkfs"
    /\ mkfs_cmds = <<>>
    /\ pc' = "ask_fstab"
    /\ UNCHANGED <<host, config, mkfs_cmds, old_fstab, new_fstab, i, j, log>>
    /\ UNCHANGED notfs

\* lines 40-42: confirm_action on the queued mkfs commands
AskMkfs ==
    /\ pc = "ask_mkfs"
    /\ mkfs_cmds # <<>>
    /\ \E answer \in BOOLEAN :
          /\ log' = Append(log, [Event("confirm_mkfs") EXCEPT
                                    !.ans = answer, !.cmds = mkfs_cmds])
          /\ pc' = after_confirm_mkfs(answer)
    /\ i' = 1
    /\ UNCHANGED <<host, config, mkfs_cmds, old_fstab, new_fstab, j>>
    /\ UNCHANGED notfs

\* lines 43-44: run_cmd(cmd, sudo=True); a non-zero exit is a UserError
RunMkfs ==
    /\ pc = "mkfs"
    /\ i <= Len(mkfs_cmds)
    /\ LET cmd == mkfs_cmds[i] IN
       \E rc \in {0, 1} :
          /\ log' = Append(log, [Event("mkfs") EXCEPT
                                    !.device = cmd.device,
                                    !.fs_type = cmd.fs_type, !.rc = rc])
          /\ IF rc = 0
             THEN /\ dev_fs' = [dev_fs EXCEPT ![cmd.device[2][1]] = cmd.fs_type]
                  /\ i' = i + 1
                  /\ pc' = IF i = Len(mkfs_cmds) THEN "ask_fstab" ELSE "mkfs"
             ELSE /\ pc' = "failed"
                  /\ UNCHANGED <<dev_fs, i>>
    /\ UNCHANGED <<listed, queryable, fstab_file, mounted, config, mkfs_cmds,
                   old_fstab, new_fstab, j>>
    /\ UNCHANGED notfs

\* after the fstab step: the last loop starts
EnterLoop ==
    LET n == next_mountable(iter_order, 1)
    IN /\ i' = n
       /\ j' = IF n = 0 THEN 0 ELSE 1
       /\ pc' = IF n = 0 THEN "done" ELSE "loop"

\* line 46, str(new_fstab) = str(old_fstab): no prompt, no write
SkipFstab ==
    /\ pc = "ask_fstab"
    /\ write_string(new_fstab) = write_string(old_fstab)
    /\ EnterLoop
    /\ UNCHANGED <<host, config, mkfs_cmds, old_fstab, new_fstab, log>>
    /\ UNCHANGED notfs

\* lines 46-48: confirm_action on the new fstab
AskFstab ==
    /\ pc = "ask_fstab"
    /\ write_string(new_fstab) # write_string(old_fstab)
    /\ \E answer \in BOOLEAN :
          /\ log' = Append(log, [Event("confirm_fstab") EXCEPT
                                    !.ans = answer,
                                    !.content = write_string(new_fstab)])
          /\ IF after_confirm_fstab(answer) = "loop"
             THEN EnterLoop
             ELSE /\ pc' = after_confirm_fstab(answer)
                  /\ UNCHANGED <<i, j>>
    /\ UNCHANGED <<host, config, mkfs_cmds, old_fstab, new_fstab>>
    /\ UNCHANGED notfs

\* lines 49-53: fstab_path.write_text(new_fstab.write_string())
WriteFstab ==
    /\ pc = "write_fstab"
    /\ LET content == write_string(new_fstab_entries(filesystems, iter_order))
       IN /\ fstab_file' = content
          /\ log' = Append(log, [Event("write_fstab") EXCEPT
                                    !.content = content])
    /\ EnterLoop
    /\ UNCHANGED <<dev_fs, listed, queryable, mounted, config, mkfs_cmds,
                   old_fstab, new_fstab>>
    /\ UNCHANGED notfs

\* the loop body moves on: next step of this filesystem, or next filesystem
Advance ==
    IF j < Len(loop_body)
    THEN /\ j' = j + 1
         /\ UNCHANGED <<i, pc>>
    ELSE LET n == next_mountable(iter_order, i + 1)
         IN /\ i' = n
            /\ j' = IF n = 0 THEN 0 ELSE 1
            /\ pc' = IF n = 0 THEN "done" ELSE "loop"

\* line 57: run_cmd(["mkdir", "-p", mountpoint]); a non-zero exit is a UserError
Mkdir ==
    /\ pc = "loop"
    /\ loop_body[j] = "mkdir"
    /\ LET mp == iter_order[i].mountpoint IN
       \E rc \in (IF mp \in mounted THEN {0} ELSE {0, 1}) :
          /\ log' = Append(log, [Event("mkdir") EXCEPT !.mp = mp, !.rc = rc])
          /\ IF rc = 0 THEN Advance
             ELSE /\ pc' = "failed"
                  /\ UNCHANGED <<i, j>>
    /\ UNCHANGED <<host, config, mkfs_cmds, old_fstab, new_fstab>>
    /\ UNCHANGED notfs

\* lines 58-68: run_cmd(["mount", mountpoint], user_error=False)
Mount ==
    /\ pc = "loop"
    /\ loop_body[j] = "mount"
    /\ LET mp == iter_order[i].mountpoint IN
       \E rc \in (IF mp \in mounted THEN {AlreadyMounted} ELSE {0, 32}) :
          /\ log' = Append(log, [Event("mount") EXCEPT !.mp = mp, !.rc = rc])
          /\ mounted' = IF rc = 0 THEN mounted \cup {mp} ELSE mounted
          /\ IF tolerated(rc) THEN Advance
             ELSE /\ pc' = "failed"
                  /\ UNCHANGED <<i, j>>
    /\ UNCHANGED <<dev_fs, listed, queryable, fstab_file, config, mkfs_cmds,
                   old_fstab, new_fstab>>
    /\ UNCHANGED notfs

\* the tool is run again on the host as the finished run left it
Rerun ==
    /\ pc = "done"
    /\ run < MaxRuns
    /\ UNCHANGED <<host, filesystems>>
    /\ run' = run + 1
    /\ iter_order' \in Perms(filesystems)
    /\ prev_clean' = \A k \in 1..Len(log) :
                        log[k].op \in {"confirm_mkfs", "confirm_fstab"}
                            => log[k].ans
    /\ start_converged' = Converged'
    /\ pc' = "start"
    /\ mkfs_cmds' = <<>>
    /\ old_fstab' = <<>>
    /\ new_fstab' = <<>>
    /\ i' = 0
    /\ j' = 0
    /\ log' = <<>>
    /\ UNCHANGED notfs

RunStep ==
    \/ Resolve \/ SkipMkfs \/ AskMkfs \/ RunMkfs \/ SkipFstab \/ AskFstab
    \/ WriteFstab \/ Mkdir \/ Mount

\* The variables of update_filesystems while another operation is looked at.
IdleFS ==
    /\ filesystems = {}
    /\ iter_order = <<>>
    /\ dev_fs = [d \in Range(Devices) |-> "ext4"]
    /\ listed = {}
    /\ queryable = {}
    /\ fstab_file = <<>>
    /\ mounted = {}
    /\ pc = "idle"
    /\ mkfs_cmds = <<>>
    /\ old_fstab = <<>>
    /\ new_fstab = <<>>
    /\ i = 0
    /\ j = 0
    /\ log = <<>>
    /\ run = 1
    /\ prev_clean = FALSE
    /\ start_converged = FALSE

IdleLV ==
    /\ lv_a = [name |-> "lv", layout |-> {}, size |-> None, stripes |-> 1,
               stripe_size |-> 0, pv_tag |-> None, cache_for |-> None,
               cache_mode |-> None]
    /\ lv_b = lv_a
    /\ same_ab = {}
    /\ same_ba = {}

IdleMissing ==
    /\ device_reports = <<>>
    /\ gen_k = 0
    /\ gen_pc = "idle"
    /\ missing_pvs = {}

EmptySetup == [pvs |-> {}, vgs |-> {}, vg_pvs |-> {}, lvs |-> {},
               missing_pvs |-> {}]

IdleSystem ==
    /\ installed = FALSE
    /\ lv_data = <<>>
    /\ vg_devices_raw = <<>>
    /\ pv_data = <<>>
    /\ sys_pc = "idle"
    /\ sys_k = 0
    /\ entities = EmptySetup
    /\ pv_tag_registry = <<>>

IdleDiscovery ==
    /\ lsblk_output = <<>>
    /\ infos = <<>>
    /\ d_pc = "idle"
    /\ lookups = <<>>
    /\ queries = <<>>

IdleConfig ==
    /\ lvs = <<>>
    /\ sorted_lvs = <<>>
    /\ cfg_k = 0
    /\ cfg_pc = "idle"
    /\ lvs_entities = <<>>

-----------------------------------------------------------------------------
(* LV: lvm.py 22-92 *)

LayoutTags == {"linear", "raid1"}
StripeSizes == {0, 65536}

\* The LVs is_same_layout is applied to.
LVs ==
    [name : {"lv"}, layout : SUBSET LayoutTags, size : {None},
     stripes : 1..MaxStripes, stripe_size : StripeSizes, pv_tag : {None},
     cache_for : {None}, cache_mode : {None}]

\* LV.is_same_layout (lines 42-48): "and" binds tighter than "or"
is_same_layout(self, other) ==
    \/ self.layout \subseteq other.layout
    \/ /\ other.layout \subseteq self.layout
       /\ self.stripes = other.stripes
       /\ self.stripe_size = other.stripe_size

InitLayout ==
    /\ lv_a \in LVs
    /\ lv_b \in LVs
    /\ same_ab = {}
    /\ same_ba = {}
    /\ IdleFS /\ IdleMissing /\ IdleSystem /\ IdleDiscovery /\ IdleConfig

\* lv_a.is_same_layout(lv_b)
CompareAB ==
    /\ same_ab = {}
    /\ same_ab' = {is_same_layout(lv_a, lv_b)}
    /\ UNCHANGED <<lv_a, lv_b, same_ba>>
    /\ UNCHANGED notlv

\* lv_b.is_same_layout(lv_a)
CompareBA ==
    /\ same_ba = {}
    /\ same_ba' = {is_same_layout(lv_b, lv_a)}
    /\ UNCHANGED <<lv_a, lv_b, same_ab>>
    /\ UNCHANGED notlv

NextLayout == CompareAB \/ CompareBA

SpecLayout == InitLayout /\ [][NextLayout]_vars

\* C7: is_same_layout is true only when one layout set is a subset of the
\* other and the stripe counts and the stripe sizes are equal, and the result
\* does not depend on the argument order.
C7_LayoutEquality ==
    /\ TRUE \in same_ab =>
          /\ lv_a.layout \subseteq lv_b.layout
                \/ lv_b.layout \subseteq lv_a.layout
          /\ lv_a.stripes = lv_b.stripes
          /\ lv_a.stripe_size = lv_b.stripe_size
    /\ same_ab # {} /\ same_ba # {} => same_ab = same_ba

-----------------------------------------------------------------------------
(* get_missing_pvs: lvm.py 14, 287-300.  A report string is a sequence of
   symbols: device names, "(", ")", ",", and info words. *)

\* All sequences over S of length at most n.
RECURSIVE SeqsUpTo(_, _)
SeqsUpTo(S, n) ==
    IF n = 0 THEN {<<>>}
    ELSE LET shorter == SeqsUpTo(S, n - 1)
         IN shorter \cup {Append(q, x) : q \in shorter, x \in S}

IntTokens == {"0", "12345"}

ReportCatalogue ==
    { <<"/dev/sda1", "(", "missing", ")">>,
      <<"/dev/sdb1", "(", "12345", ")">>,
      <<"/dev/sdc1", "(", "corrupt", ")">>,
      <<"/dev/sdd1">>,
      <<"(", "missing", ")">>,
      <<"/dev/sdb1", "(", "0", ")", ",", "/dev/sda1", "(", "missing", ")">>,
      <<"/dev/sda1", "(", "missing", ")", ",", "/dev/sdb1", "(", "0", ")">> }

\* VGS_DEVICE_REPORT_RE.match: ^(?P<device>.+)\((?P<info>.+)\)$, greedy
VGS_DEVICE_REPORT_RE(report) ==
    LET n == Len(report)
        ps == {p \in 2..(n - 2) : report[p] = "("}
    IN IF ps # {} /\ report[n] = ")"
       THEN LET p == CHOOSE x \in ps : \A y \in ps : y <= x
            IN [matched |-> TRUE, device |-> SubSeq(report, 1, p - 1),
                info |-> SubSeq(report, p + 1, n - 1)]
       ELSE [matched |-> FALSE, device |-> <<>>, info |-> <<>>]

\* (mutant) every info value passes for an integer
is_int_any(info) == TRUE

\* int(info) does not raise ValueError
is_int(info) == info # <<>> /\ \A k \in 1..Len(info) : info[k] \in IntTokens

\* PV(device=Path(device))
PV(device) == [device |-> device]

\* lines 289-300: one turn of the loop: what it does with one report
report_step(device_report) ==
    LET m == VGS_DEVICE_REPORT_RE(device_report)
    IN IF ~m.matched THEN [outcome |-> "AssertionError", pv |-> PV(<<>>)]
       ELSE IF m.info = <<"missing">>
            THEN [outcome |-> "yield", pv |-> PV(m.device)]
            ELSE IF is_int(m.info)
                 THEN [outcome |-> "skip", pv |-> PV(<<>>)]
                 ELSE [outcome |-> "ValueError", pv |-> PV(<<>>)]

\* get_missing_pvs consumed to its end: [error, pvs]
RECURSIVE get_missing_pvs(_)
get_missing_pvs(reports) ==
    IF reports = <<>> THEN [error |-> None, pvs |-> {}]
    ELSE LET st == report_step(reports[1])
         IN IF st.outcome \in {"AssertionError", "ValueError"}
            THEN [error |-> st.outcome, pvs |-> {}]
            ELSE LET rest == get_missing_pvs(Tail(reports))
                 IN [error |-> rest.error,
                     pvs |-> (IF st.outcome = "yield" THEN {st.pv} ELSE {})
                                \cup rest.pvs]

InitMissing ==
    /\ device_reports \in SeqsUpTo(ReportCatalogue, MaxReports)
    /\ gen_k = 1
    /\ gen_pc = "running"
    /\ missing_pvs = {}
    /\ IdleFS /\ IdleLV /\ IdleSystem /\ IdleDiscovery /\ IdleConfig

\* the consumer (set.update) asks for the next PV: the loop takes one report
NextReport ==
    /\ gen_pc = "running"
    /\ gen_k <= Len(device_reports)
    /\ LET st == report_step(device_reports[gen_k])
       IN /\ missing_pvs' = IF st.outcome = "yield"
                            THEN missing_pvs \cup {st.pv} ELSE missing_pvs
          /\ gen_pc' = IF st.outcome \in {"yield", "skip"} THEN "running"
                       ELSE st.outcome
          /\ gen_k' = IF st.outcome \in {"yield", "skip"} THEN gen_k + 1
                      ELSE gen_k
    /\ UNCHANGED device_reports
    /\ UNCHANGED notmp

\* the loop runs off the end of device_reports
Exhaust ==
    /\ gen_pc = "running"
    /\ gen_k > Len(device_reports)
    /\ gen_pc' = "exhausted"
    /\ UNCHANGED <<device_reports, gen_k, missing_pvs>>
    /\ UNCHANGED notmp

NextMissing == NextReport \/ Exhaust

SpecMissing == InitMissing /\ [][NextMissing]_vars

\* What the report strings say, read off the strings themselves.
MissingForm(r) ==
    Len(r) >= 4 /\ SubSeq(r, Len(r) - 2, Len(r)) = <<"(", "missing", ")">>
IntForm(r) ==
    \E p \in 2..(Len(r) - 2) :
       /\ r[p] = "(" /\ r[Len(r)] = ")"
       /\ \A k \in (p + 1)..(Len(r) - 1) : r[k] \in IntTokens
BadForm(r) == ~MissingForm(r) /\ ~IntForm(r)
MissingAmong(n) ==
    {PV(SubSeq(device_reports[k], 1, Len(device_reports[k]) - 3)) :
        k \in {m \in 1..n : MissingForm(device_reports[m])}}

\* C8: get_missing_pvs yields exactly the PVs whose report is <device>(missing),
\* ignores the reports whose info is an integer, and raises at the first
\* report that is neither, without yielding anything after it.
C8_MissingPVs ==
    /\ gen_pc = "running" =>
          /\ \A k \in 1..(gen_k - 1) : ~BadForm(device_reports[k])
          /\ missing_pvs = MissingAmong(gen_k - 1)
    /\ gen_pc = "exhausted" =>
          /\ \A k \in 1..Len(device_reports) : ~BadForm(device_reports[k])
          /\ missing_pvs = MissingAmong(Len(device_reports))
    /\ gen_pc \in {"AssertionError", "ValueError"} =>
          /\ BadForm(device_reports[gen_k])
          /\ \A k \in 1..(gen_k - 1) : ~BadForm(device_reports[k])
          /\ missing_pvs = MissingAmong(gen_k - 1)
    /\ (\E k \in 1..Len(device_reports) : BadForm(device_reports[k])) =>
          gen_pc # "exhausted"

C8_Witness ==
    /\ gen_pc = "ValueError"
    /\ gen_k = Len(device_reports)
    /\ missing_pvs = {PV(<<"/dev/sda1">>)}
    /\ \E k \in 1..Len(device_reports) : IntForm(device_reports[k])

-----------------------------------------------------------------------------
(* LVMSetup.from_system: lvm.py 174-284 *)

\* str.split(","): the pieces between the commas
RECURSIVE split(_)
split(str) ==
    LET commas == {k \in 1..Len(str) : str[k] = ","}
    IN IF commas = {} THEN <<str>>
       ELSE LET c == CHOOSE k \in commas : \A h \in commas : k <= h
            IN <<SubSeq(str, 1, c - 1)>> \o split(SubSeq(str, c + 1, Len(str)))

\* a piece of a split string as one word ("" when empty)
Word(piece) == IF piece = <<>> THEN "" ELSE piece[1]

\* humanfriendly.parse_size of "<number><unit>"
parse_size(size) ==
    size.number * (CASE size.unit = "KiB" -> 1024 [] OTHER -> 1)

\* LV.__post_init__ (lines 33-37) raises UserError
post_init_raises(lv) == lv.cache_for # None /\ lv.cache_mode = None

\* lines 275-283: the LV from_system builds from an lvs record
system_lv(entry, registry) ==
    [name |-> entry.lv_name,
     layout |-> {Word(piece) : piece \in Range(split(entry.lv_layout))},
     size |-> parse_size(entry.lv_size),
     stripes |-> entry.stripes,
     stripe_size |-> parse_size(entry.stripe_size),
     pv_tag |-> IF entry.lv_name \in DOMAIN registry
                THEN registry[entry.lv_name] ELSE None,
     cache_for |-> IF entry.origin = "" THEN None ELSE entry.origin,
     cache_mode |-> None]

LvReports ==
    { [lv_name |-> "data", vg_name |-> "vg0", lv_layout |-> <<"linear">>,
       lv_size |-> [number |-> 4, unit |-> "KiB"], stripes |-> 1,
       stripe_size |-> [number |-> 0, unit |-> "B"], origin |-> ""],
      [lv_name |-> "home", vg_name |-> "vg0",
       lv_layout |-> <<"raid", ",", "raid1">>,
       lv_size |-> [number |-> 8, unit |-> "KiB"], stripes |-> 2,
       stripe_size |-> [number |-> 64, unit |-> "KiB"], origin |-> ""],
      [lv_name |-> "fast", vg_name |-> "vg0",
       lv_layout |-> <<"cache", ",", "pool">>,
       lv_size |-> [number |-> 1, unit |-> "KiB"], stripes |-> 1,
       stripe_size |-> [number |-> 0, unit |-> "B"], origin |-> "data"] }

PvTagStrings == {<<>>, <<"fast">>, <<"fast", ",", "slow">>}

InitSystem ==
    /\ installed \in BOOLEAN
    /\ lv_data \in SeqsUpTo(LvReports, MaxLVs)
    /\ vg_devices_raw \in
          {[k \in 1..Len(q) |-> [vg_name |-> "vg0", devices |-> q[k]]] :
              q \in SeqsUpTo(ReportCatalogue, 1)}
    /\ pv_data \in
          {<<[pv_name |-> <<"/dev/sda1">>, vg_name |-> "vg0",
              lv_name |-> "data", pv_tags |-> t]>> : t \in PvTagStrings}
    /\ sys_pc = "start"
    /\ sys_k = 0
    /\ entities = EmptySetup
    /\ pv_tag_registry = <<>>
    /\ IdleFS /\ IdleLV /\ IdleMissing /\ IdleDiscovery /\ IdleConfig

\* lines 176-236: without lvm2 the empty setup is returned; else the reports
\* are read, the VGs registered and the missing PVs collected
FromSystemVGs ==
    /\ sys_pc = "start"
    /\ IF ~installed
       THEN /\ sys_pc' = "done"
            /\ UNCHANGED entities
       ELSE LET got == get_missing_pvs(
                          [k \in 1..Len(vg_devices_raw) |->
                              vg_devices_raw[k].devices])
            IN IF got.error # None
               THEN /\ sys_pc' = "failed"
                    /\ entities' = [entities EXCEPT !.vgs = {"vg0"}]
               ELSE /\ sys_pc' = "pvs"
                    /\ entities' = [entities EXCEPT !.vgs = {"vg0"},
                                                    !.missing_pvs = got.pvs]
    /\ UNCHANGED <<installed, lv_data, vg_devices_raw, pv_data, sys_k,
                   pv_tag_registry>>
    /\ UNCHANGED notsys

\* lines 238-265: the PVs, their tags, and the tag of each LV
FromSystemPVs ==
    /\ sys_pc = "pvs"
    /\ LET entry == pv_data[1]
           pv_tags == split(entry.pv_tags)
       IN IF Len(pv_tags) > 1
          THEN /\ sys_pc' = "failed"
               /\ UNCHANGED <<entities, pv_tag_registry, sys_k>>
          ELSE /\ entities' =
                     [entities EXCEPT
                         !.pvs = @ \cup {PV(entry.pv_name)},
                         !.vg_pvs = @ \cup {[tag |-> Word(pv_tags[1]),
                                             pv |-> PV(entry.pv_name)]}]
               /\ pv_tag_registry' =
                     [n \in {entry.lv_name} |-> Word(pv_tags[1])]
               /\ sys_k' = 1
               /\ sys_pc' = "lvs"
    /\ UNCHANGED <<installed, lv_data, vg_devices_raw, pv_data>>
    /\ UNCHANGED notsys

\* lines 267-283: one record of the lvs report becomes an LV
FromSystemLV ==
    /\ sys_pc = "lvs"
    /\ sys_k <= Len(lv_data)
    /\ LET lv == system_lv(lv_data[sys_k], pv_tag_registry)
       IN IF post_init_raises(lv)
          THEN /\ sys_pc' = "failed"
               /\ UNCHANGED <<entities, sys_k>>
          ELSE /\ entities' =
                     [entities EXCEPT
                         !.lvs = {l \in @ : l.name # lv.name} \cup {lv}]
               /\ sys_k' = sys_k + 1
               /\ UNCHANGED sys_pc
    /\ UNCHANGED <<installed, lv_data, vg_devices_raw, pv_data,
                   pv_tag_registry>>
    /\ UNCHANGED notsys

\* line 284: return entities
FromSystemReturn ==
    /\ sys_pc = "lvs"
    /\ sys_k > Len(lv_data)
    /\ sys_pc' = "done"
    /\ UNCHANGED <<installed, lv_data, vg_devices_raw, pv_data, sys_k,
                   entities, pv_tag_registry>>
    /\ UNCHANGED notsys

NextSystem ==
    FromSystemVGs \/ FromSystemPVs \/ FromSystemLV \/ FromSystemReturn

SpecSystem == InitSystem /\ [][NextSystem]_vars

\* The reports from_system reads before the lvs records are well formed.
ReportsWellFormed ==
    /\ \A k \in 1..Len(vg_devices_raw) : ~BadForm(vg_devices_raw[k].devices)
    /\ \A k \in 1..Len(pv_data) :
          Cardinality({c \in 1..Len(pv_data[k].pv_tags) :
                          pv_data[k].pv_tags[c] = ","}) = 0

\* C9: with the LVM tools installed and an lvs record with a non-empty origin,
\* from_system completes and the returned setup has cache_for set on exactly
\* the LVs whose record has a non-empty origin.
C9_CacheLVConstructed ==
    /\ installed
    /\ ReportsWellFormed
    /\ \E k \in 1..Len(lv_data) : lv_data[k].origin # ""
    =>  /\ sys_pc # "failed"
        /\ sys_pc = "done" =>
              \A k \in 1..Len(lv_data) :
                 \E lv \in entities.lvs :
                    /\ lv.name = lv_data[k].lv_name
                    /\ (lv.cache_for # None) = (lv_data[k].origin # "")

-----------------------------------------------------------------------------
(* Device discovery and lookup: filesystems.py 128-220 *)

Mapper == <<"mapper">>
NameSymbols == {"v", "-"}
MapperNames == SeqsUpTo(NameSymbols, MaxNameLen) \ {<<>>}

\* The host: a disk /dev/v that carries one device-mapper device.
HostTree(name, fstype) ==
    <<[name |-> DevPath("v"), type |-> "disk", fstype |-> None,
       label |-> None, uuid |-> None,
       children |->
          <<[name |-> <<Dev, Mapper, name>>, type |-> "lvm",
             fstype |-> fstype, label |-> "data", uuid |-> "u9",
             children |-> <<>>]>>]>>

RECURSIVE flatten(_)
flatten(entries) ==
    IF entries = <<>> THEN <<>>
    ELSE <<entries[1]>> \o flatten(entries[1].children)
            \o flatten(Tail(entries))

\* Symbolic links on the host: lsblk follows them and reports the device
\* under its own name.
LinkToDisk == <<Dev, <<"disk">>, <<"by-id">>, <<"v">>>>
LinkToMapper == <<Dev, <<"disk">>, <<"by-uuid">>, <<"u9">>>>
realpath(tree, device) ==
    IF device = LinkToDisk THEN tree[1].name
    ELSE IF device = LinkToMapper THEN tree[1].children[1].name
    ELSE device

\* lsblk <device> on the host: the entry of that device, or a non-zero exit
lsblk_device(tree, device) ==
    LET all == flatten(tree)
        hits == {k \in 1..Len(all) : all[k].name = realpath(tree, device)}
    IN IF hits = {} THEN [ok |-> FALSE, blockdevices |-> <<>>]
       ELSE [ok |-> TRUE,
             blockdevices |-> <<all[CHOOSE k \in hits : TRUE]>>]

MapperPath == lsblk_output[1].children[1].name

InitDiscovery ==
    /\ lsblk_output \in {HostTree(n, t) : n \in MapperNames,
                                          t \in {None, "ext4"}}
    /\ infos = <<>>
    /\ d_pc = "new"
    /\ lookups = <<>>
    /\ queries = <<>>
    /\ IdleFS /\ IdleLV /\ IdleMissing /\ IdleSystem /\ IdleConfig

\* DeviceInfos.__init__ (lines 129-132): _from_system(update=True)
Discover ==
    /\ d_pc = "new"
    /\ infos' = DeviceInfos(lsblk_output)
    /\ d_pc' = "ready"
    /\ UNCHANGED <<lsblk_output, lookups, queries>>
    /\ UNCHANGED notd

\* get_info_for_device(device) (lines 208-220)
Lookup ==
    /\ d_pc = "ready"
    /\ Len(lookups) < MaxLookups
    /\ \E device \in {MapperPath, alias_path(MapperPath), DevPath("v"),
                      LinkToDisk, LinkToMapper, DevPath("nonexistent")} :
          LET query == lsblk_device(lsblk_output, device)
              r == get_info_for_device(infos, device, query)
          IN /\ lookups' = Append(lookups, [device |-> device, ok |-> r.ok,
                                            info |-> r.info])
             /\ queries' = queries
                              \o get_info_for_device_queries(infos, device)
             /\ infos' = get_info_for_device_infos(infos, device, query)
             /\ d_pc' = IF r.ok THEN "ready" ELSE "failed"
    /\ UNCHANGED lsblk_output
    /\ UNCHANGED notd

NextDiscovery == Discover \/ Lookup

SpecDiscovery == InitDiscovery /\ [][NextDiscovery]_vars

\* What a device-mapper name says, read off the name itself.
SingleHyphens(name) ==
    {k \in 2..(Len(name) - 1) :
        name[k] = "-" /\ name[k-1] # "-" /\ name[k+1] # "-"}
HasLongRun(name) ==
    \E k \in 1..(Len(name) - 2) :
       name[k] = "-" /\ name[k+1] = "-" /\ name[k+2] = "-"
HasDoubled(name) ==
    \E k \in 1..(Len(name) - 1) : name[k] = "-" /\ name[k+1] = "-"

\* Every maximal run of n hyphens shortened to (n + 1) \div 2 hyphens.
RECURSIVE CollapseRuns(_)
CollapseRuns(str) ==
    IF str = <<>> THEN <<>>
    ELSE IF str[1] # "-" THEN <<str[1]>> \o CollapseRuns(Tail(str))
    ELSE LET ends == {k \in 1..Len(str) :
                         /\ \A h \in 1..k : str[h] = "-"
                         /\ k = Len(str) \/ str[k+1] # "-"}
             n == CHOOSE k \in ends : TRUE
         IN [h \in 1..((n + 1) \div 2) |-> "-"]
               \o CollapseRuns(SubSeq(str, n + 1, Len(str)))

ExpectedAlias(path) ==
    LET name == Last(path)
        singles == SingleHyphens(name)
    IN IF singles = {} THEN <<Dev, CollapseRuns(name)>>
       ELSE LET k == CHOOSE x \in singles : \A y \in singles : x <= y
            IN <<Dev, CollapseRuns(SubSeq(name, 1, k - 1)),
                 CollapseRuns(SubSeq(name, k + 1, Len(name)))>>

FirstWith(device) ==
    LET hits == {k \in 1..Len(infos) : infos[k].device = device}
    IN IF hits = {} THEN 0 ELSE CHOOSE k \in hits : \A h \in hits : k <= h

SameRecord(a, b) ==
    /\ a.device_type = b.device_type
    /\ a.fs_type = b.fs_type
    /\ a.label = b.label
    /\ a.uuid = b.uuid

LookupsAgree(alias) ==
    \A a, b \in 1..Len(lookups) :
       lookups[a].device = MapperPath /\ lookups[b].device = alias =>
          /\ lookups[a].ok /\ lookups[b].ok
          /\ SameRecord(lookups[a].info, lookups[b].info)

\* What discovery registers: the path and, right after it, the alias
\* /dev/<name with its first hyphen that has a non-hyphen on both sides, if
\* any, replaced by a separator, and then every "--" replaced by "-">; the
\* disk gets no alias; when the name has such a hyphen and no run of three or
\* more hyphens the alias has exactly one inserted separator and no doubled
\* hyphen; without such a hyphen no separator is inserted; lookups of the path
\* and of the alias return the same type, fs type, label and UUID unless an
\* entry registered earlier carries the alias path.
AliasAsRegistered ==
    d_pc # "new" =>
       LET name == Last(MapperPath)
           at == FirstWith(MapperPath)
           alias == infos[at + 1].device
       IN /\ Len(infos) = 3
          /\ at = 2
          /\ alias = ExpectedAlias(MapperPath)
          /\ SameRecord(infos[at], infos[at + 1])
          /\ SingleHyphens(name) # {} /\ ~HasLongRun(name) =>
                /\ Len(alias) = Len(MapperPath)
                /\ \A c \in 1..Len(alias) : ~HasDoubled(alias[c])
          /\ SingleHyphens(name) = {} => Len(alias) = Len(MapperPath) - 1
          /\ FirstWith(alias) = at + 1 => LookupsAgree(alias)

\* C10: for every discovered path under /dev/mapper the registered
\* alias has exactly one inserted separator and no doubled hyphen, and lookups
\* of the path and of the alias return the same type, fs type, label and UUID.
C10_AliasForEveryMapperPath ==
    d_pc # "new" =>
       LET alias == infos[FirstWith(MapperPath) + 1].device
       IN /\ Len(alias) = Len(MapperPath)
          /\ \A c \in 1..Len(alias) : ~HasDoubled(alias[c])
          /\ LookupsAgree(alias)

\* The lookups that find no entry with their path in the list built at
\* construction, read off the host's device tree.
BuiltAtConstruction == DeviceInfos(lsblk_output)
IsUncached(lookup) ==
    \A e \in 1..Len(BuiltAtConstruction) :
       BuiltAtConstruction[e].device # lookup.device
UncachedLookups == SelectSeq(lookups, IsUncached)

\* C11: get_info_for_device leaves the cached list as construction built it;
\* a lookup of a cached path returns the first cached entry with that path
\* and issues no query; a lookup of an uncached path issues exactly one
\* single-device query, for that path, and returns what the host reports,
\* so the queries issued are the uncached lookups, one each and in order,
\* and a repeated lookup of an uncached path queries again.
C11_LookupLeavesCacheUnchanged ==
    d_pc \in {"ready", "failed"} =>
       /\ infos = BuiltAtConstruction
       /\ Len(queries) = Len(UncachedLookups)
       /\ \A k \in 1..Len(queries) : queries[k] = UncachedLookups[k].device
       /\ \A k \in 1..Len(lookups) :
             IF IsUncached(lookups[k])
             THEN lookups[k].ok =>
                     /\ lookups[k].info.device
                           = realpath(lsblk_output, lookups[k].device)
                     /\ \E e \in 1..Len(flatten(lsblk_output)) :
                           /\ flatten(lsblk_output)[e].name
                                 = lookups[k].info.device
                           /\ flatten(lsblk_output)[e].uuid
                                 = lookups[k].info.uuid
                           /\ Len(flatten(lsblk_output)[e].children)
                                 = Len(lookups[k].info.children)
             ELSE /\ lookups[k].ok
                  /\ lookups[k].info = infos[FirstWith(lookups[k].device)]

C11_Witness ==
    /\ d_pc = "ready"
    /\ Len(lookups) = 2
    /\ lookups[1].device = LinkToDisk
    /\ lookups[2].device = LinkToDisk
    /\ queries = <<LinkToDisk, LinkToDisk>>
    /\ lookups[2].info.children # <<>>
    /\ Len(infos) = 3

-----------------------------------------------------------------------------
(* LVMSetup.from_config, the LVs of one VG: lvm.py 128-160 *)

NamePool == <<"a", "b", "c", "d", "e">>
ConfigNames == {NamePool[k] : k \in 1..MaxConfigLVs}
Rest == [number |-> 0, unit |-> "rest"]

\* The settings of one LV entry.  has_cache_for: the key "cache_for" is in the
\* mapping; cache_for: its value, None for null.
LVSettings ==
    {st \in [has_cache_for : BOOLEAN, cache_for : ConfigNames \cup {None},
             cache_mode : {None, "writeback"}, layout : {"raid1"},
             size : {[number |-> 1, unit |-> "KiB"]}] :
        ~st.has_cache_for => st.cache_for = None /\ st.cache_mode = None}

\* The orders in which the keys of an "lvs" mapping can appear.
KeyOrders == UNION {Perms(N) : N \in SUBSET ConfigNames}

\* line 134: key=lambda entry: "cache_for" in entry[1]
HasKey(item) == item[2].has_cache_for
LacksKey(item) == ~item[2].has_cache_for

\* (mutant) the items are visited in mapping order
sorted_by_cache_for_unsorted(items) == items

\* lines 133-135: sorted(lvs.items(), key=...): a stable sort, False first
sorted_by_cache_for(items) ==
    SelectSeq(items, LacksKey) \o SelectSeq(items, HasKey)

\* lvs_entities[name]: the position of the LV stored under name, 0 if none
entity_at(entities_so_far, name) ==
    LET hits == {k \in 1..Len(entities_so_far) :
                    entities_so_far[k].name = name}
    IN IF hits = {} THEN 0 ELSE CHOOSE k \in hits : TRUE

\* lines 146-148: lv_settings.get("cache_for") and the lookup of its name
raises_KeyError(entities_so_far, lv_settings) ==
    /\ lv_settings.cache_for # None
    /\ entity_at(entities_so_far, lv_settings.cache_for) = 0

\* lines 138-160: the LV built from an entry; an LV object is referred to by
\* the key it is stored under in lvs_entities
config_lv(lv_name, lv_settings) ==
    [name |-> lv_name,
     layout |-> IF lv_settings.cache_for # None THEN {}
                ELSE {lv_settings.layout},
     size |-> IF lv_settings.size = Rest THEN None
              ELSE parse_size(lv_settings.size),
     stripes |-> 1,
     stripe_size |-> 0,
     pv_tag |-> None,
     cache_for |-> lv_settings.cache_for,
     cache_mode |-> lv_settings.cache_mode]

\* LV.is_cache (lines 39-40)
is_cache(lv) == lv.cache_for # None

InitConfig ==
    /\ \E keys \in KeyOrders :
          \E st \in [1..Len(keys) -> LVSettings] :
             lvs = [k \in 1..Len(keys) |-> <<keys[k], st[k]>>]
    /\ sorted_lvs = <<>>
    /\ cfg_k = 0
    /\ cfg_pc = "start"
    /\ lvs_entities = <<>>
    /\ IdleFS /\ IdleLV /\ IdleMissing /\ IdleSystem /\ IdleDiscovery

\* lines 128-135: lvs_entities = {} and the order of the loop
FromConfigSort ==
    /\ cfg_pc = "start"
    /\ sorted_lvs' = sorted_by_cache_for(lvs)
    /\ cfg_k' = 1
    /\ cfg_pc' = "loop"
    /\ UNCHANGED <<lvs, lvs_entities>>
    /\ UNCHANGED notcfg

\* lines 136-160: one turn of the loop
FromConfigLV ==
    /\ cfg_pc = "loop"
    /\ cfg_k <= Len(sorted_lvs)
    /\ LET lv_name == sorted_lvs[cfg_k][1]
           lv_settings == sorted_lvs[cfg_k][2]
           lv == config_lv(lv_name, lv_settings)
       IN IF raises_KeyError(lvs_entities, lv_settings)
          THEN cfg_pc' = "KeyError" /\ UNCHANGED <<cfg_k, lvs_entities>>
          ELSE IF post_init_raises(lv)
          THEN cfg_pc' = "UserError" /\ UNCHANGED <<cfg_k, lvs_entities>>
          ELSE /\ lvs_entities' = Append(lvs_entities, lv)
               /\ cfg_k' = cfg_k + 1
               /\ cfg_pc' = "loop"
    /\ UNCHANGED <<lvs, sorted_lvs>>
    /\ UNCHANGED notcfg

\* lines 162-171: the loop is over, the VG is stored with lvs_entities
FromConfigVG ==
    /\ cfg_pc = "loop"
    /\ cfg_k > Len(sorted_lvs)
    /\ cfg_pc' = "done"
    /\ UNCHANGED <<lvs, sorted_lvs, cfg_k, lvs_entities>>
    /\ UNCHANGED notcfg

NextConfig == FromConfigSort \/ FromConfigLV \/ FromConfigVG

SpecConfig == InitConfig /\ [][NextConfig]_vars

\* What the config says, read off the mapping: every cache_for value names
\* an LV of the VG that has no cache_for itself.
SettingsOf(name) ==
    lvs[CHOOSE k \in 1..Len(lvs) : lvs[k][1] = name][2]
CacheForNamesNonCacheLVs ==
    \A k \in 1..Len(lvs) :
       lvs[k][2].has_cache_for =>
          /\ lvs[k][2].cache_for # None
          /\ \E o \in 1..Len(lvs) :
                /\ lvs[o][1] = lvs[k][2].cache_for
                /\ ~lvs[o][2].has_cache_for

\* C12: when every cache_for value names a non-cache LV of the VG, then in
\* whatever order the entries appear, every non-cache LV is constructed
\* before any cache LV, each cache LV refers to the origin its entry names,
\* constructed before it, and has an empty layout set; construction never
\* stops on a failed lookup, only on a cache LV without cache_mode, and
\* otherwise constructs every LV.
C12_DependencyOrder ==
    CacheForNamesNonCacheLVs =>
       /\ cfg_pc # "KeyError"
       /\ \A a, b \in 1..Len(lvs_entities) :
             is_cache(lvs_entities[a]) /\ ~is_cache(lvs_entities[b]) => b < a
       /\ \A a \in 1..Len(lvs_entities) :
             LET lv == lvs_entities[a]
             IN /\ is_cache(lv) = SettingsOf(lv.name).has_cache_for
                /\ lv.cache_for = SettingsOf(lv.name).cache_for
                /\ is_cache(lv) =>
                      /\ lv.layout = {}
                      /\ \E b \in 1..(a - 1) :
                            /\ lvs_entities[b].name = lv.cache_for
                            /\ ~is_cache(lvs_entities[b])
                /\ ~is_cache(lv) => lv.layout # {}
       /\ cfg_pc = "UserError" =>
             /\ sorted_lvs[cfg_k][2].has_cache_for
             /\ sorted_lvs[cfg_k][2].cache_mode = None
       /\ cfg_pc = "done" =>
             /\ Len(lvs_entities) = Len(lvs)
             /\ \A k \in 1..Len(lvs) :
                   entity_at(lvs_entities, lvs[k][1]) # 0

C12_Witness ==
    /\ cfg_pc = "done"
    /\ CacheForNamesNonCacheLVs
    /\ Len(lvs) = 3
    /\ lvs[1][2].has_cache_for
    /\ lvs[2][2].has_cache_for
    /\ lvs[1][2].cache_for = lvs[3][1]
    /\ is_cache(lvs_entities[3])

InitFS == InitFSVars /\ IdleLV /\ IdleMissing /\ IdleSystem /\ IdleDiscovery /\ IdleConfig

NextFS == RunStep \/ Rerun

Spec == InitFS /\ [][NextFS]_vars

-----------------------------------------------------------------------------
(* Claims about update_filesystems, checked under Spec *)

Ops(names) == {k \in 1..Len(log) : log[k].op \in names}
Mountpoints == {fs.mountpoint : fs \in {f \in filesystems : f.mountpoint # None}}
DeclinedMkfs == \E k \in Ops({"confirm_mkfs"}) : ~log[k].ans
DeclinedFstab == \E k \in Ops({"confirm_fstab"}) : ~log[k].ans

\* C1: no mkfs command is executed unless the mkfs prompt, listing all queued
\* commands, was answered yes earlier in the run; /etc/fstab is written only
\* if the fstab prompt, showing the content written, was answered yes earlier.
C1_ConfirmedBeforeDestructive ==
    /\ \A k \in Ops({"mkfs"}) :
          \E m \in Ops({"confirm_mkfs"}) :
             /\ m < k
             /\ log[m].ans
             /\ log[m].cmds = mkfs_cmds
             /\ [fs_type |-> log[k].fs_type, device |-> log[k].device]
                   \in Range(log[m].cmds)
    /\ \A k \in Ops({"write_fstab"}) :
          \E m \in Ops({"confirm_fstab"}) :
             m < k /\ log[m].ans /\ log[m].content = log[k].content
    /\ pc \in {"mkfs", "write_fstab"} =>
          \E m \in Ops({IF pc = "mkfs" THEN "confirm_mkfs"
                        ELSE "confirm_fstab"}) : log[m].ans

C1_Witness ==
    /\ Ops({"mkfs"}) # {}
    /\ Ops({"write_fstab"}) # {}
    /\ \E k \in Ops({"confirm_mkfs"}) : Len(log[k].cmds) > 1

\* C2: a negative answer skips only its own step. After a declined mkfs prompt
\* no mkfs runs, the fstab comparison is still made, its prompt is asked
\* exactly when the contents differ, and a yes writes the file; after a
\* declined fstab prompt the confirmed mkfs commands have all run and nothing
\* is written; in both cases the run goes on to the mount loop, which issues
\* mkdir and mount for every filesystem with a mountpoint, and a run that
\* fails fails on a command's exit status or on resolution, not on an answer.
C2_DeclineSkipsOnlyItsStep ==
    /\ DeclinedMkfs =>
          /\ Ops({"mkfs"}) = {}
          /\ pc \in {"ask_fstab", "write_fstab", "loop", "done", "failed"}
          /\ pc \in {"write_fstab", "loop", "done", "failed"} =>
                /\ (Ops({"confirm_fstab"}) # {}
                      <=> write_string(new_fstab) # write_string(old_fstab))
                /\ \A k \in Ops({"confirm_fstab"}) :
                      log[k].ans /\ pc # "write_fstab" =>
                         /\ \E w \in Ops({"write_fstab"}) : w = k + 1
                         /\ fstab_file = log[k].content
    /\ DeclinedFstab =>
          /\ Ops({"write_fstab"}) = {}
          /\ pc \in {"loop", "done", "failed"}
          /\ \A m \in Ops({"confirm_mkfs"}) :
                log[m].ans =>
                   \A n \in 1..Len(log[m].cmds) :
                      /\ log[m + n].op = "mkfs"
                      /\ log[m + n].rc = 0
                      /\ log[m + n].device = log[m].cmds[n].device
    /\ (DeclinedMkfs \/ DeclinedFstab) /\ pc = "done" =>
          \A mp \in Mountpoints :
             \E a, b \in 1..Len(log) :
                /\ a < b
                /\ log[a].op = "mkdir" /\ log[a].mp = mp
                /\ log[b].op = "mount" /\ log[b].mp = mp
    /\ (DeclinedMkfs \/ DeclinedFstab) /\ pc = "failed" =>
          /\ Last(log).op \in {"mkfs", "mkdir", "mount"}
          /\ Last(log).rc \notin {0, AlreadyMounted}

C2_Witness ==
    /\ pc = "done"
    /\ DeclinedMkfs
    /\ Ops({"write_fstab"}) # {}
    /\ Cardinality(Ops({"mount"})) > 1

C4_MountEnforcement ==
    /\ pc = "done" =>
          \A mp \in Mountpoints : \E k \in Ops({"mount"}) : log[k].mp = mp
    /\ \A k \in Ops({"mount"}) :
          IF log[k].rc \in {0, AlreadyMounted}
          THEN /\ k = Len(log) => pc \in {"loop", "done"}
               /\ k = Len(log) /\ pc = "done" =>
                     \A mp \in Mountpoints :
                        \E m \in Ops({"mount"}) : log[m].mp = mp
          ELSE k = Len(log) /\ pc = "failed"
    /\ \A k \in Ops({"mkdir", "mount"}) :
          log[k].mp # None /\ log[k].mp \in Mountpoints
    /\ \A k \in Ops({"mkdir"}) : log[k].rc # 0 => k = Len(log) /\ pc = "failed"

C4_Witness ==
    /\ pc = "failed"
    /\ log # <<>>
    /\ Last(log).op = "mount"
    /\ \E k \in Ops({"mount"}) : log[k].rc = AlreadyMounted

\* C5: in one run every mkfs precedes the fstab write, the fstab prompt and
\* write precede the first mkdir and mount, the mkdir of a mountpoint completes
\* before the mount of that mountpoint, and no prompt, mkfs or fstab write
\* follows a mkdir or mount.
C5_EffectOrder ==
    \A a, b \in 1..Len(log) :
       a < b =>
          /\ ~(log[a].op \in {"confirm_fstab", "write_fstab"}
                  /\ log[b].op \in {"confirm_mkfs", "mkfs"})
          /\ ~(log[a].op \in {"mkdir", "mount"}
                  /\ log[b].op \in {"confirm_mkfs", "mkfs", "confirm_fstab",
                                    "write_fstab"})
          /\ log[b].op = "mount" =>
                \E m \in Ops({"mkdir"}) :
                   m < b /\ log[m].mp = log[b].mp /\ log[m].rc = 0

C5_Witness ==
    /\ Ops({"mkfs"}) # {}
    /\ Ops({"write_fstab"}) # {}
    /\ Cardinality(Ops({"mount"})) > 1
    /\ pc = "done"

\* C6: when some desired filesystem does not resolve, whatever its position in
\* the iteration, the run ends with an error before any prompt, mkfs, fstab
\* write, mkdir or mount.
C6_NoPartialApplication ==
    (\E fs \in filesystems : ~Resolvable(fs)) /\ pc # "start" =>
        pc = "failed" /\ log = <<>>

C6_Witness ==
    /\ pc = "failed"
    /\ log = <<>>
    /\ Len(iter_order) > 1
    /\ Resolvable(iter_order[1])
    /\ dev_fs[TargetOf(iter_order[1])] # iter_order[1].fs_type
    /\ ~Resolvable(Last(iter_order))

====
